---- MODULE Spec2Model ----
(***************************************************************************)
(* Model of plugins/modules/azure_rm_loadbalancer.py: the reconciliation   *)
(* run of AzureRMLoadBalancer.exec_module against a remote load balancer,  *)
(* and the structural differ default_compare.                              *)
(*                                                                         *)
(* Python values are modelled as tagged trees: None, int, str, dict and    *)
(* list.  A dict is a function from its keys to trees; its keys iterate in *)
(* the serialiser's attribute order (KeyOrder).  The interpreter is        *)
(* Python 3: ordering None, a dict, or values of two different types       *)
(* raises TypeError, which the model reports as the outcome "raise".       *)
(***************************************************************************)
EXTENDS Integers, Sequences, FiniteSets, TLC

VARIABLES
    remote,             \* the load balancer held by the service, or None
    params,             \* the module parameters of the run (kwargs)
    pc,                 \* position of exec_module
    self_location,      \* self.location after lines 651-652
    load_balancer,      \* what get_load_balancer returned
    new_load_balancer,  \* self.new_load_balancer
    results,            \* self.results
    calls,              \* this run's calls on load_balancers, in order
    fatal,              \* message of self.fail, "" if none
    runs,               \* runs started so far
    prevrun,            \* how the previous run ended
    remote0,            \* the remote resource when this run started
    cnew,               \* default_compare: the argument new
    cold,               \* default_compare: the argument old
    cpc,                \* driver of default_compare
    verdict,            \* outcome of the latest default_compare(cnew, cold)
    prev                \* outcome of the call before the perturbation

runvars ==
    <<remote, params, pc, self_location, load_balancer, new_load_balancer,
      results, calls, fatal, runs, prevrun, remote0>>

cmpvars == <<cnew, cold, cpc, verdict, prev>>

vars ==
    <<remote, params, pc, self_location, load_balancer, new_load_balancer,
      results, calls, fatal, runs, prevrun, remote0, cnew, cold, cpc, verdict,
      prev>>

(***************************************************************************)
(* Python values.                                                          *)
(***************************************************************************)
PyNone == [none |-> TRUE]
PyInt(i) == [int |-> i]
PyStr(s) == [str |-> s]
PyDict(f) == [dict |-> f]
PyList(q) == [list |-> q]

IsNone(x) == "none" \in DOMAIN x
IsInt(x) == "int" \in DOMAIN x
IsStr(x) == "str" \in DOMAIN x
IsDict(x) == "dict" \in DOMAIN x
IsList(x) == "list" \in DOMAIN x

EmptyDict == PyDict([k \in {} |-> PyNone])

\* k in d, for a dict d
HasKey(d, k) == k \in DOMAIN d.dict

\* d.get(k, None)
DictGet(d, k) == IF HasKey(d, k) THEN d.dict[k] ELSE PyNone

\* The order in which a serialised dict yields its keys: the attribute order
\* of the SDK models' as_dict.
KeyOrder ==
    <<"id", "name", "location", "tags", "sku", "frontend_ip_configurations",
      "backend_address_pools", "load_balancing_rules", "probes",
      "inbound_nat_rules", "inbound_nat_pools", "public_ip_address", "zones",
      "frontend_ip_configuration", "backend_address_pool", "probe",
      "protocol", "port", "interval_in_seconds", "number_of_probes",
      "frontend_port", "backend_port", "frontend_port_range_start",
      "frontend_port_range_end", "env", "team">>

KeySet == {KeyOrder[i] : i \in 1..Len(KeyOrder)}

\* list(d.keys()); a dict with a key outside KeyOrder has no value here
DictKeys(d) ==
    IF DOMAIN d.dict \subseteq KeySet
    THEN SelectSeq(KeyOrder, LAMBDA k : HasKey(d, k))
    ELSE CHOOSE q \in {} : TRUE

(***************************************************************************)
(* Identifier builders (lines 904-931) and the names of the run.           *)
(***************************************************************************)
subscription_id == "sub0"
resource_group == "rg0"
lb_name == "lb0"

LbId ==
    "/subscriptions/" \o subscription_id \o "/resourceGroups/" \o resource_group
    \o "/providers/Microsoft.Network/loadBalancers/" \o lb_name

ChildId(kind, child) == LbId \o "/" \o kind \o "/" \o child

frontend_ip_configuration_id(child) == ChildId("frontendIPConfigurations", child)

backend_address_pool_id(child) == ChildId("backendAddressPools", child)

probe_id(child) == ChildId("probes", child)

\* format_resource_id(id, subscription_id, 'Microsoft.Network',
\* 'publicIPAddresses', resource_group) for a bare name
format_resource_id(val) ==
    "/subscriptions/" \o subscription_id \o "/resourceGroups/" \o resource_group
    \o "/providers/Microsoft.Network/publicIPAddresses/" \o val

\* Python's order on the strings the model sorts (code point order): the ids
\* and names of sub-objects, zones, and the strings of the differ's trees.
StrOrder ==
    <<backend_address_pool_id("bp0"),
      frontend_ip_configuration_id("f0"), frontend_ip_configuration_id("f1"),
      ChildId("inboundNatPools", "np0"), ChildId("inboundNatRules", "nr0"),
      ChildId("loadBalancingRules", "lr0"),
      probe_id("p0"), probe_id("p1"),
      "1", "2", "bp0", "f0", "f1", "lr0", "np0", "nr0", "p0", "p1", "x", "y">>

StrRank(s) == CHOOSE i \in 1..Len(StrOrder) : StrOrder[i] = s

(***************************************************************************)
(* default_compare.  Outcomes: "True", "False", or "raise" when the call   *)
(* ends with an exception instead of a verdict.                            *)
(***************************************************************************)
CmpTrue == "True"
CmpFalse == "False"
CmpRaise == "raise"

\* The first outcome that is not True, as the loops return it; True if none.
FirstFailure(rs) ==
    IF \A i \in 1..Len(rs) : rs[i] = CmpTrue
    THEN CmpTrue
    ELSE rs[CHOOSE i \in 1..Len(rs) :
                /\ rs[i] # CmpTrue
                /\ \A j \in 1..(i - 1) : rs[j] = CmpTrue]

\* k in x, for the first element x of a list: key membership for a dict,
\* element membership for a list, substring test for a str (no string of the
\* model contains "id" or "name"), TypeError for None and int.
PyIn(k, x) ==
    IF IsDict(x) THEN (IF HasKey(x, k) THEN CmpTrue ELSE CmpFalse)
    ELSE IF IsList(x)
         THEN (IF \E i \in 1..Len(x.list) : x.list[i] = PyStr(k)
               THEN CmpTrue ELSE CmpFalse)
    ELSE IF IsStr(x) THEN CmpFalse
    ELSE CmpRaise

\* The sort key chosen at lines 886-890 from the first elements alone:
\* "id", "name", "" for key = None, or "raise".
SortKey(new0, old0) ==
    LET inId == IF HasKey(old0, "id") THEN PyIn("id", new0) ELSE CmpFalse
        inName == IF HasKey(old0, "name") THEN PyIn("name", new0) ELSE CmpFalse
    IN  IF inId = CmpRaise THEN "raise"
        ELSE IF inId = CmpTrue THEN "id"
        ELSE IF inName = CmpRaise THEN "raise"
        ELSE IF inName = CmpTrue THEN "name"
        ELSE ""

\* Whether sorted() can order these keys: fewer than two need no comparison;
\* otherwise all ints or all strs.  None and dict are unorderable.
Orderable(ks) ==
    \/ Len(ks) <= 1
    \/ \A i \in 1..Len(ks) : IsInt(ks[i])
    \/ \A i \in 1..Len(ks) : IsStr(ks[i])

Rank(k) == IF IsInt(k) THEN k.int ELSE StrRank(k.str)

\* sorted(q, key=...): the stable sort of q by the keys ks (Orderable).
StableSort(q, ks) ==
    LET n == Len(q)
        pos(i) == 1 + Cardinality({j \in 1..n :
                        \/ Rank(ks[j]) < Rank(ks[i])
                        \/ (Rank(ks[j]) = Rank(ks[i]) /\ j < i)})
    IN  IF n <= 1 THEN q
        ELSE [p \in 1..n |-> q[CHOOSE i \in 1..n : pos(i) = p]]

\* sorted(q, key=lambda x: x.get(key, None)): <<ok, sorted>>; not ok when an
\* element has no get (AttributeError) or the keys cannot be ordered.
SortedByKey(q, key) ==
    IF \E i \in 1..Len(q) : ~IsDict(q[i]) THEN <<FALSE, q>>
    ELSE LET ks == [i \in 1..Len(q) |->
                      IF key = "" THEN PyNone ELSE DictGet(q[i], key)]
         IN  IF Orderable(ks) THEN <<TRUE, StableSort(q, ks)>>
             ELSE <<FALSE, q>>

\* sorted(q): <<ok, sorted>>
SortedNatural(q) ==
    IF Orderable(q) THEN <<TRUE, StableSort(q, q)>> ELSE <<FALSE, q>>

RECURSIVE default_compare(_, _)

\* A plausible slip at line 876: the loop also visits the keys of old.
ComparedKeys_symmetric(new, old) ==
    SelectSeq(KeyOrder, LAMBDA k : HasKey(new, k) \/ HasKey(old, k))

\* A plausible slip at line 877: a key that old lacks is skipped instead of
\* being compared with None.
ComparedKeys_common(new, old) ==
    SelectSeq(KeyOrder, LAMBDA k : HasKey(new, k) /\ HasKey(old, k))

\* for k in new.keys(): the keys the dict branch visits
ComparedKeys(new, old) == DictKeys(new)

default_compare(new, old) ==
    IF IsDict(new) THEN
        IF ~IsDict(old) THEN CmpFalse
        ELSE LET ks == ComparedKeys(new, old)
             IN  FirstFailure([i \in 1..Len(ks) |->
                     default_compare(DictGet(new, ks[i]), DictGet(old, ks[i]))])
    ELSE IF IsList(new) THEN
        IF ~IsList(old) THEN CmpFalse
        ELSE IF Len(new.list) # Len(old.list) THEN CmpFalse
        ELSE IF Len(old.list) = 0 THEN CmpTrue
        ELSE LET key == IF IsDict(old.list[1])
                        THEN SortKey(new.list[1], old.list[1]) ELSE ""
                 sn == IF IsDict(old.list[1])
                       THEN SortedByKey(new.list, key)
                       ELSE SortedNatural(new.list)
                 so == IF IsDict(old.list[1])
                       THEN SortedByKey(old.list, key)
                       ELSE SortedNatural(old.list)
             IN  IF key = "raise" \/ ~sn[1] \/ ~so[1] THEN CmpRaise
                 ELSE FirstFailure([i \in 1..Len(sn[2]) |->
                          default_compare(sn[2][i], so[2][i])])
    ELSE IF new = old THEN CmpTrue ELSE CmpFalse

(***************************************************************************)
(* SDK model objects.  An object is a dict of its attributes; an attribute *)
(* that is None may be left out.  as_dict serialises an object: it drops   *)
(* the attributes that are None, at every level.                           *)
(***************************************************************************)
\* bool(x)
Truthy(x) ==
    /\ ~IsNone(x)
    /\ (IsInt(x) => x.int # 0)
    /\ (IsStr(x) => x.str # "")
    /\ (IsList(x) => Len(x.list) > 0)
    /\ (IsDict(x) => DOMAIN x.dict # {})

\* getattr(obj, key), and item.get(key) for a parameter dict
getattr(obj, key) == DictGet(obj, key)

\* setattr(obj, key, v)
setattr(obj, key, v) ==
    PyDict([j \in DOMAIN obj.dict \cup {key} |->
               IF j = key THEN v ELSE obj.dict[j]])

RECURSIVE as_dict(_)

as_dict(x) ==
    IF IsDict(x)
    THEN PyDict([k \in {j \in DOMAIN x.dict : ~IsNone(x.dict[j])} |->
                   as_dict(x.dict[k])])
    ELSE IF IsList(x)
    THEN PyList([i \in 1..Len(x.list) |-> as_dict(x.list[i])])
    ELSE x

\* [... for item in l] if l else None: the items iterated over, and the
\* list of what was built from them
ItemsOf(l) == IF Truthy(l) THEN l.list ELSE <<>>

Comprehension(l, built) == IF Truthy(l) THEN PyList(built) ELSE PyNone

(***************************************************************************)
(* The desired-state builder, lines 656-780.  Of each sub-object the model *)
(* carries the name, the references, the protocol and the ports; the       *)
(* fields left out are copied from the input exactly as the ports are.     *)
(***************************************************************************)
SubResource(id) == PyDict([id |-> PyStr(id)])

get_public_ip_address_instance(id) == PyDict([id |-> PyStr(format_resource_id(id.str))])

\* lines 659-670: the load balancer does not exist
FrontendIPConfiguration_new(item) ==
    PyDict([name |-> getattr(item, "name"),
            public_ip_address |->
                IF Truthy(getattr(item, "public_ip_address"))
                THEN get_public_ip_address_instance(getattr(item, "public_ip_address"))
                ELSE PyNone,
            zones |-> getattr(item, "zones")])

\* A plausible reading of lines 672-687: what new_front[index] leaves out is
\* taken from old_front[index], the existing entry at the same index.
FrontendIPConfiguration_paired(old_front, new_front, index) ==
    LET item == new_front.list[index]
        paired == IF IsList(old_front) /\ index <= Len(old_front.list)
                  THEN old_front.list[index] ELSE EmptyDict
    IN  PyDict([name |-> getattr(item, "name"),
                public_ip_address |->
                    IF Truthy(getattr(item, "public_ip_address"))
                    THEN get_public_ip_address_instance(
                             getattr(item, "public_ip_address"))
                    ELSE getattr(paired, "public_ip_address"),
                zones |-> IF Truthy(getattr(item, "zones"))
                          THEN getattr(item, "zones")
                          ELSE getattr(paired, "zones")])

\* lines 672-687: the load balancer exists; the entry built for one index of
\* range(len(new_front)).  old_front is assigned at line 672 and never read.
FrontendIPConfiguration_existing(old_front, new_front, index) ==
    LET item == new_front.list[index]
    IN  PyDict([name |-> getattr(item, "name"),
                public_ip_address |->
                    IF Truthy(getattr(item, "public_ip_address"))
                    THEN get_public_ip_address_instance(
                             getattr(item, "public_ip_address"))
                    ELSE PyNone,
                zones |-> IF Truthy(getattr(item, "zones"))
                          THEN getattr(item, "zones") ELSE PyNone])

BackendAddressPool(item) == PyDict([name |-> getattr(item, "name")])

Probe(item) ==
    PyDict([name |-> getattr(item, "name"),
            port |-> getattr(item, "port"),
            protocol |-> getattr(item, "protocol"),
            interval_in_seconds |-> getattr(item, "interval"),
            number_of_probes |-> getattr(item, "fail_count")])

InboundNatPool(item) ==
    PyDict([name |-> getattr(item, "name"),
            frontend_ip_configuration |->
                SubResource(frontend_ip_configuration_id(
                    getattr(item, "frontend_ip_configuration_name").str)),
            protocol |-> getattr(item, "protocol"),
            frontend_port_range_start |-> getattr(item, "frontend_port_range_start"),
            frontend_port_range_end |-> getattr(item, "frontend_port_range_end"),
            backend_port |-> getattr(item, "backend_port")])

LoadBalancingRule(item) ==
    PyDict([name |-> getattr(item, "name"),
            frontend_ip_configuration |->
                SubResource(frontend_ip_configuration_id(
                    getattr(item, "frontend_ip_configuration").str)),
            backend_address_pool |->
                SubResource(backend_address_pool_id(
                    getattr(item, "backend_address_pool").str)),
            probe |-> SubResource(probe_id(getattr(item, "probe").str)),
            protocol |-> getattr(item, "protocol"),
            frontend_port |-> getattr(item, "frontend_port"),
            backend_port |-> getattr(item, "backend_port")])

InboundNatRule(item) ==
    PyDict([name |-> getattr(item, "name"),
            frontend_ip_configuration |->
                IF Truthy(getattr(item, "frontend_ip_configuration"))
                THEN SubResource(frontend_ip_configuration_id(
                         getattr(item, "frontend_ip_configuration").str))
                ELSE PyNone,
            protocol |-> getattr(item, "protocol"),
            frontend_port |-> getattr(item, "frontend_port"),
            backend_port |-> getattr(item, "backend_port")])

\* lines 658-780: self.new_load_balancer as constructed
LoadBalancer(p, location, lb) ==
    PyDict([sku |-> IF Truthy(p.sku) THEN PyDict([name |-> p.sku]) ELSE PyNone,
            location |-> location,
            tags |-> p.tags,
            frontend_ip_configurations |->
                IF IsNone(lb)
                THEN Comprehension(p.frontend_ip_configurations,
                    [i \in DOMAIN ItemsOf(p.frontend_ip_configurations) |->
                        FrontendIPConfiguration_new(ItemsOf(p.frontend_ip_configurations)[i])])
                ELSE Comprehension(p.frontend_ip_configurations,
                    [i \in DOMAIN ItemsOf(p.frontend_ip_configurations) |->
                        FrontendIPConfiguration_existing(
                            getattr(lb, "frontend_ip_configurations"),
                            p.frontend_ip_configurations, i)]),
            backend_address_pools |->
                Comprehension(p.backend_address_pools,
                    [i \in DOMAIN ItemsOf(p.backend_address_pools) |->
                        BackendAddressPool(ItemsOf(p.backend_address_pools)[i])]),
            probes |-> Comprehension(p.probes,
                    [i \in DOMAIN ItemsOf(p.probes) |->
                        Probe(ItemsOf(p.probes)[i])]),
            inbound_nat_pools |->
                Comprehension(p.inbound_nat_pools,
                    [i \in DOMAIN ItemsOf(p.inbound_nat_pools) |->
                        InboundNatPool(ItemsOf(p.inbound_nat_pools)[i])]),
            load_balancing_rules |->
                Comprehension(p.load_balancing_rules,
                    [i \in DOMAIN ItemsOf(p.load_balancing_rules) |->
                        LoadBalancingRule(ItemsOf(p.load_balancing_rules)[i])]),
            inbound_nat_rules |->
                Comprehension(p.inbound_nat_rules,
                    [i \in DOMAIN ItemsOf(p.inbound_nat_rules) |->
                        InboundNatRule(ItemsOf(p.inbound_nat_rules)[i])])])

(***************************************************************************)
(* assign_protocol and object_assign, lines 849-869.                       *)
(***************************************************************************)
ProtocolAttrs ==
    {"probes", "inbound_nat_rules", "inbound_nat_pools", "load_balancing_rules"}

\* lines 864-868 for one item; references is a list
AssignItemProtocol(item, references) ==
    IF Truthy(getattr(item, "protocol")) THEN item
    ELSE LET refs == SelectSeq(references.list,
                         LAMBDA x : getattr(x, "name") = getattr(item, "name"))
         IN  setattr(item, "protocol",
                     IF Len(refs) > 0 THEN getattr(refs[1], "protocol")
                     ELSE PyStr("Tcp"))

\* line 862
References(origin, attribute) ==
    IF IsNone(origin) THEN PyList(<<>>) ELSE getattr(origin, attribute)

\* line 866 iterates references: TypeError when the existing resource holds
\* None there and some item of the patch needs a protocol
AssignRaises(patch, origin, attribute) ==
    /\ Truthy(getattr(patch, attribute))
    /\ ~IsList(References(origin, attribute))
    /\ \E i \in 1..Len(getattr(patch, attribute).list) :
          ~Truthy(getattr(getattr(patch, attribute).list[i], "protocol"))

\* [raised, value]: value is the patch with the protocols filled in
assign_protocol(patch, origin) ==
    IF \E a \in ProtocolAttrs : AssignRaises(patch, origin, a)
    THEN [raised |-> TRUE, value |-> patch]
    ELSE [raised |-> FALSE,
          value |-> PyDict([k \in DOMAIN patch.dict |->
              IF k \in ProtocolAttrs /\ Truthy(patch.dict[k])
              THEN PyList([i \in 1..Len(patch.dict[k].list) |->
                       AssignItemProtocol(patch.dict[k].list[i],
                                          References(origin, k))])
              ELSE patch.dict[k]])]

\* LoadBalancer._attribute_map minus the read-only attributes of _validation
\* (name, type, etag, resource_guid, provisioning_state), as far as modelled
AssignedAttrs ==
    {"id", "location", "tags", "sku", "frontend_ip_configurations",
     "backend_address_pools", "load_balancing_rules", "probes",
     "inbound_nat_rules", "inbound_nat_pools"}

object_assign(patch, origin) ==
    PyDict([k \in DOMAIN patch.dict \cup AssignedAttrs |->
               IF k \in AssignedAttrs /\ ~Truthy(getattr(patch, k))
               THEN getattr(origin, k)
               ELSE getattr(patch, k)])

(***************************************************************************)
(* The collaborators of the run: the tag merge of the module base class    *)
(* and the service behind network_client.load_balancers.                   *)
(***************************************************************************)
\* update_tags(tags): <<changed, merged>>, the additive merge of the user's
\* tags into the existing ones
update_tags(tags, param_tags) ==
    LET old == IF IsDict(tags) THEN tags ELSE EmptyDict
        new == IF IsDict(param_tags) THEN param_tags ELSE EmptyDict
    IN  <<\E k \in DOMAIN new.dict : DictGet(old, k) # new.dict[k],
          PyDict([k \in DOMAIN old.dict \cup DOMAIN new.dict |->
                     IF HasKey(new, k) THEN new.dict[k] ELSE old.dict[k]])>>

\* the path segment under which the service files the sub-objects
ChildKind(attribute) ==
    CASE attribute = "frontend_ip_configurations" -> "frontendIPConfigurations"
      [] attribute = "backend_address_pools" -> "backendAddressPools"
      [] attribute = "probes" -> "probes"
      [] attribute = "inbound_nat_rules" -> "inboundNatRules"
      [] attribute = "inbound_nat_pools" -> "inboundNatPools"
      [] attribute = "load_balancing_rules" -> "loadBalancingRules"

Collections ==
    {"frontend_ip_configurations", "backend_address_pools", "probes",
     "inbound_nat_rules", "inbound_nat_pools", "load_balancing_rules"}

\* begin_create_or_update(resource_group, name, param) and its poller: the
\* service keeps the payload, names the resource and every sub-object, and
\* holds an empty list for a collection the payload leaves out
ServiceStore(param) ==
    PyDict([k \in (DOMAIN param.dict \cup Collections \cup {"id", "name"}) |->
        IF k = "id" THEN PyStr(LbId)
        ELSE IF k = "name" THEN PyStr(lb_name)
        ELSE IF k \in Collections
        THEN (IF IsList(getattr(param, k))
              THEN PyList([i \in 1..Len(getattr(param, k).list) |->
                       setattr(getattr(param, k).list[i], "id",
                           PyStr(ChildId(ChildKind(k),
                               getattr(getattr(param, k).list[i], "name").str)))])
              ELSE PyList(<<>>))
        ELSE getattr(param, k)])

\* get_resource_group(self.resource_group).location
resource_group_location == PyStr("eastus")

(***************************************************************************)
(* exec_module, lines 643-816.                                             *)
(***************************************************************************)
\* line 658, 784: an SDK object is true, None is not
Exists(lb) == ~IsNone(lb)

\* A plausible slip at lines 784-795: the diff is skipped and an existing
\* resource always counts as changed.
DiffChanged_always(state, new_lb, lb) ==
    IF state = "present" THEN TRUE ELSE Exists(lb)

\* A plausible slip at lines 792-793: the else branch is missing, so a
\* resource that does not exist leaves changed as it was.
DiffChanged_no_else(state, new_lb, lb) ==
    IF state = "present"
    THEN (IF Exists(lb)
          THEN default_compare(as_dict(new_lb), as_dict(lb)) # CmpTrue
          ELSE FALSE)
    ELSE Exists(lb)

\* lines 784-795: changed as the diff sets it; new_lb is the patch after
\* object_assign
DiffChanged(state, new_lb, lb) ==
    IF state = "present"
    THEN (IF Exists(lb)
          THEN default_compare(as_dict(new_lb), as_dict(lb)) # CmpTrue
          ELSE TRUE)
    ELSE Exists(lb)

\* lines 798-804: whether the tag step sets changed
TagsChanged(state_dict, param_tags) ==
    IF HasKey(state_dict, "tags")
    THEN update_tags(DictGet(state_dict, "tags"), param_tags)[1]
    ELSE Truthy(param_tags)

\* lines 797-799: self.results['state'] before any mutation
ReportedState(lb, param_tags) ==
    LET state_dict == IF Exists(lb) THEN as_dict(lb) ELSE EmptyDict
    IN  IF HasKey(state_dict, "tags")
        THEN setattr(state_dict, "tags",
                     update_tags(DictGet(state_dict, "tags"), param_tags)[2])
        ELSE state_dict

\* lines 656-785: self.new_load_balancer, [raised, value]
NewLoadBalancer(p, location, lb) ==
    LET ap == assign_protocol(LoadBalancer(p, location, lb), lb)
    IN  IF ap.raised THEN ap
        ELSE [raised |-> FALSE,
              value |-> IF Exists(lb) THEN object_assign(ap.value, lb)
                        ELSE ap.value]

InitialResults == [changed |-> FALSE, state |-> EmptyDict]

\* lines 645-654: the parameters become attributes, the location defaults to
\* the resource group's, the load balancer is fetched (NotFound gives None).
\* get_resource_group (line 650) reads the resource group on every run; it
\* is a call on another client and is modelled by the location it returns.
Fetch ==
    /\ pc = "start"
    /\ self_location' = IF Truthy(params.location) THEN params.location
                        ELSE resource_group_location
    /\ load_balancer' = remote
    /\ calls' = Append(calls, [op |-> "get", param |-> PyNone])
    /\ pc' = "fetched"
    /\ UNCHANGED <<remote, params, new_load_balancer, results, fatal, runs,
                   prevrun, remote0, cmpvars>>

\* lines 656-805: build, diff, tag step; an exception ends the run
Decide ==
    /\ pc = "fetched"
    /\ LET nlb == IF params.state = "present"
                  THEN NewLoadBalancer(params, self_location, load_balancer)
                  ELSE [raised |-> FALSE, value |-> PyNone]
           state_dict == IF Exists(load_balancer) THEN as_dict(load_balancer)
                         ELSE EmptyDict
       IN  IF nlb.raised
              \/ (params.state = "present" /\ Exists(load_balancer)
                  /\ default_compare(as_dict(nlb.value),
                                     as_dict(load_balancer)) = CmpRaise)
           THEN /\ pc' = "crashed"
                /\ UNCHANGED <<new_load_balancer, results>>
           ELSE /\ new_load_balancer' = nlb.value
                /\ results' =
                     [changed |-> \/ DiffChanged(params.state, nlb.value,
                                                 load_balancer)
                                  \/ TagsChanged(state_dict, params.tags),
                      state |-> ReportedState(load_balancer, params.tags)]
                /\ pc' = "decided"
    /\ UNCHANGED <<remote, params, self_location, load_balancer, calls, fatal,
                   runs, prevrun, remote0, cmpvars>>

\* lines 807-808
CheckModeReturn ==
    /\ pc = "decided"
    /\ params.check_mode
    /\ pc' = "done"
    /\ UNCHANGED <<remote, params, self_location, load_balancer,
                   new_load_balancer, results, calls, fatal, runs, prevrun,
                   remote0, cmpvars>>

\* A plausible slip at lines 807-808: the check-mode return is missing.
CreateOrUpdate_in_check_mode ==
    /\ pc = "decided"
    /\ params.state = "present" /\ results.changed
    /\ remote' = ServiceStore(new_load_balancer)
    /\ calls' = Append(calls, [op |-> "createOrUpdate",
                                param |-> new_load_balancer])
    /\ results' = [results EXCEPT !.state = as_dict(remote')]
    /\ pc' = "done"
    /\ UNCHANGED <<params, self_location, load_balancer, new_load_balancer,
                   fatal, runs, prevrun, remote0, cmpvars>>

\* lines 810-811, 841-845: the call succeeds
CreateOrUpdate ==
    /\ pc = "decided"
    /\ ~params.check_mode
    /\ params.state = "present" /\ results.changed
    /\ remote' = ServiceStore(new_load_balancer)
    /\ calls' = Append(calls, [op |-> "createOrUpdate",
                                param |-> new_load_balancer])
    /\ results' = [results EXCEPT !.state = as_dict(remote')]
    /\ pc' = "done"
    /\ UNCHANGED <<params, self_location, load_balancer, new_load_balancer,
                   fatal, runs, prevrun, remote0, cmpvars>>

\* self.fail(msg) of the module base class: the run ends there with the
\* message as its fatal error, and nothing after the call is executed
fail(msg) == [pc |-> "failed", fatal |-> msg]

\* lines 846-847: the call raises and self.fail ends the run
CreateOrUpdateFails ==
    /\ pc = "decided"
    /\ ~params.check_mode
    /\ params.state = "present" /\ results.changed
    /\ calls' = Append(calls, [op |-> "createOrUpdate",
                                param |-> new_load_balancer])
    /\ LET f == fail("Error creating or updating load balancer " \o lb_name
                      \o " - " \o "exc")
       IN  fatal' = f.fatal /\ pc' = f.pc
    /\ UNCHANGED <<remote, params, self_location, load_balancer,
                   new_load_balancer, results, runs, prevrun, remote0, cmpvars>>

\* A plausible slip at line 814: the reported state is not reset.
Delete_keeps_state ==
    /\ pc = "decided"
    /\ ~params.check_mode
    /\ params.state = "absent" /\ results.changed
    /\ remote' = PyNone
    /\ calls' = Append(calls, [op |-> "delete", param |-> PyNone])
    /\ pc' = "done"
    /\ UNCHANGED <<params, self_location, load_balancer, new_load_balancer,
                   results, fatal, runs, prevrun, remote0, cmpvars>>

\* lines 812-814, 832-837: the call succeeds
Delete ==
    /\ pc = "decided"
    /\ ~params.check_mode
    /\ params.state = "absent" /\ results.changed
    /\ remote' = PyNone
    /\ calls' = Append(calls, [op |-> "delete", param |-> PyNone])
    /\ results' = [results EXCEPT !.state = PyNone]
    /\ pc' = "done"
    /\ UNCHANGED <<params, self_location, load_balancer, new_load_balancer,
                   fatal, runs, prevrun, remote0, cmpvars>>

\* A plausible slip at lines 835-839: the failed call is issued once more
\* before the error is reported.
DeleteFails_retries ==
    /\ pc = "decided"
    /\ ~params.check_mode
    /\ params.state = "absent" /\ results.changed
    /\ calls' = calls \o <<[op |-> "delete", param |-> PyNone],
                           [op |-> "delete", param |-> PyNone]>>
    /\ LET f == fail("Error deleting loadbalancer " \o lb_name \o " - "
                      \o "exc")
       IN  fatal' = f.fatal /\ pc' = f.pc
    /\ UNCHANGED <<remote, params, self_location, load_balancer,
                   new_load_balancer, results, runs, prevrun, remote0, cmpvars>>

\* lines 838-839: the call raises and self.fail ends the run
DeleteFails ==
    /\ pc = "decided"
    /\ ~params.check_mode
    /\ params.state = "absent" /\ results.changed
    /\ calls' = Append(calls, [op |-> "delete", param |-> PyNone])
    /\ LET f == fail("Error deleting loadbalancer " \o lb_name \o " - "
                      \o "exc")
       IN  fatal' = f.fatal /\ pc' = f.pc
    /\ UNCHANGED <<remote, params, self_location, load_balancer,
                   new_load_balancer, results, runs, prevrun, remote0, cmpvars>>

\* A plausible slip at line 810: the test of changed is missing.
ReturnUnchanged_updates ==
    /\ pc = "decided"
    /\ ~params.check_mode
    /\ ~results.changed
    /\ calls' = IF params.state = "present"
                THEN Append(calls, [op |-> "createOrUpdate",
                                    param |-> new_load_balancer])
                ELSE calls
    /\ pc' = "done"
    /\ UNCHANGED <<remote, params, self_location, load_balancer,
                   new_load_balancer, results, fatal, runs, prevrun,
                   remote0, cmpvars>>

\* lines 810-816 when changed is false: neither branch is taken
ReturnUnchanged ==
    /\ pc = "decided"
    /\ ~params.check_mode
    /\ ~results.changed
    /\ pc' = "done"
    /\ UNCHANGED <<remote, params, self_location, load_balancer,
                   new_load_balancer, results, calls, fatal, runs, prevrun,
                   remote0, cmpvars>>

\* how many runs follow one another
MaxRuns == 2

\* The module is run again with the same parameters, in check mode or not;
\* nobody else touches the remote resource in between.
Rerun ==
    /\ pc \in {"done", "failed"}
    /\ runs < MaxRuns
    /\ \E cm \in BOOLEAN : params' = [params EXCEPT !.check_mode = cm]
    /\ prevrun' = [status |-> pc, changed |-> results.changed,
                   check_mode |-> params.check_mode]
    /\ runs' = runs + 1
    /\ remote0' = remote
    /\ pc' = "start"
    /\ self_location' = PyNone
    /\ load_balancer' = PyNone
    /\ new_load_balancer' = PyNone
    /\ results' = InitialResults
    /\ calls' = <<>>
    /\ fatal' = ""
    /\ UNCHANGED <<remote, cmpvars>>

(***************************************************************************)
(* The parameters the runs are started with, and the resources the service *)
(* may hold when the first run starts.                                     *)
(***************************************************************************)
FrontendItem(n, pip, zones) ==
    PyDict([name |-> PyStr(n), public_ip_address |-> pip, zones |-> zones])

\* interval and fail_count carry the defaults of probes_spec
ProbeItem(n, port, protocol) ==
    PyDict([name |-> PyStr(n), port |-> PyInt(port), protocol |-> protocol,
            interval |-> PyInt(15), fail_count |-> PyInt(3)])

NatPoolItem(n, protocol) ==
    PyDict([name |-> PyStr(n), frontend_ip_configuration_name |-> PyStr("f0"),
            protocol |-> protocol, frontend_port_range_start |-> PyInt(80),
            frontend_port_range_end |-> PyInt(81), backend_port |-> PyInt(8080)])

NatRuleItem(n, protocol) ==
    PyDict([name |-> PyStr(n), frontend_ip_configuration |-> PyStr("f0"),
            protocol |-> protocol, frontend_port |-> PyInt(8080),
            backend_port |-> PyInt(8080)])

LbRuleItem(n, protocol) ==
    PyDict([name |-> PyStr(n), frontend_ip_configuration |-> PyStr("f0"),
            backend_address_pool |-> PyStr("bp0"), probe |-> PyStr("p0"),
            protocol |-> protocol, frontend_port |-> PyInt(80),
            backend_port |-> PyInt(80)])

States == {"present", "absent"}

LocationOpts == {PyNone, PyStr("westus")}

SkuOpts == {PyNone, PyStr("Standard")}

TagOpts == {PyNone, PyDict([env |-> PyStr("x")]), PyDict([team |-> PyStr("y")])}

FrontendOpts ==
    {PyNone,
     PyList(<<FrontendItem("f0", PyNone, PyNone)>>),
     PyList(<<FrontendItem("f0", PyStr("pip0"), PyNone)>>),
     PyList(<<FrontendItem("f0", PyNone, PyList(<<>>))>>),
     PyList(<<FrontendItem("f0", PyNone, PyList(<<PyStr("1")>>))>>),
     PyList(<<FrontendItem("f1", PyNone, PyNone), FrontendItem("f0", PyNone, PyNone)>>)}

ProbeOpts ==
    {PyNone,
     PyList(<<ProbeItem("p0", 80, PyNone)>>),
     PyList(<<ProbeItem("p0", 80, PyStr("Https"))>>),
     PyList(<<ProbeItem("p1", 443, PyNone), ProbeItem("p0", 80, PyNone)>>),
     PyList(<<ProbeItem("p0", 8080, PyStr("Tcp"))>>)}

BackendOpts == {PyNone, PyList(<<PyDict([name |-> PyStr("bp0")])>>)}

NatPoolOpts == {PyNone, PyList(<<NatPoolItem("np0", PyNone)>>)}

NatRuleOpts == {PyNone, PyList(<<NatRuleItem("nr0", PyStr("Udp"))>>)}

LbRuleOpts == {PyNone, PyList(<<LbRuleItem("lr0", PyNone)>>)}

\* the runs that vary the top-level attributes, the frontends and the probes
ParamsTop ==
    [state : States, check_mode : BOOLEAN, location : LocationOpts,
     sku : SkuOpts, tags : TagOpts,
     frontend_ip_configurations : FrontendOpts,
     backend_address_pools : {PyNone}, probes : ProbeOpts,
     inbound_nat_rules : {PyNone}, inbound_nat_pools : {PyNone},
     load_balancing_rules : {PyNone}]

\* the runs that vary the pools and the rules
ParamsRules ==
    [state : States, check_mode : BOOLEAN, location : {PyNone},
     sku : {PyNone}, tags : {PyNone},
     frontend_ip_configurations :
         {PyList(<<FrontendItem("f0", PyNone, PyNone)>>)},
     backend_address_pools : BackendOpts,
     probes : {PyNone, PyList(<<ProbeItem("p0", 80, PyNone)>>)},
     inbound_nat_rules : NatRuleOpts, inbound_nat_pools : NatPoolOpts,
     load_balancing_rules : LbRuleOpts]

Params == ParamsTop \cup ParamsRules

\* what was submitted when the resources that exist at the start were made
SeedParams ==
    {[state |-> "present", check_mode |-> FALSE, location |-> PyNone,
      sku |-> PyNone, tags |-> PyDict([env |-> PyStr("x")]),
      frontend_ip_configurations |->
          PyList(<<FrontendItem("f0", PyNone, PyNone)>>),
      backend_address_pools |-> PyNone,
      probes |-> PyList(<<ProbeItem("p0", 80, PyStr("Https"))>>),
      inbound_nat_rules |-> PyNone, inbound_nat_pools |-> PyNone,
      load_balancing_rules |-> PyNone],
     [state |-> "present", check_mode |-> FALSE, location |-> PyStr("westus"),
      sku |-> PyStr("Standard"), tags |-> PyNone,
      frontend_ip_configurations |->
          PyList(<<FrontendItem("f0", PyNone, PyNone),
                   FrontendItem("f1", PyNone, PyNone)>>),
      backend_address_pools |-> PyList(<<PyDict([name |-> PyStr("bp0")])>>),
      probes |-> PyList(<<ProbeItem("p0", 80, PyNone),
                          ProbeItem("p1", 443, PyStr("Http"))>>),
      inbound_nat_rules |-> PyList(<<NatRuleItem("nr0", PyStr("Udp"))>>),
      inbound_nat_pools |-> PyList(<<NatPoolItem("np0", PyStr("All"))>>),
      load_balancing_rules |-> PyList(<<LbRuleItem("lr0", PyStr("Udp"))>>)],
     [state |-> "present", check_mode |-> FALSE, location |-> PyNone,
      sku |-> PyNone,
      tags |-> PyDict([env |-> PyStr("y"), team |-> PyStr("y")]),
      frontend_ip_configurations |->
          PyList(<<FrontendItem("f1", PyStr("pip0"), PyList(<<PyStr("1")>>))>>),
      backend_address_pools |-> PyNone,
      probes |-> PyList(<<setattr(ProbeItem("p0", 80, PyStr("Tcp")),
                                  "interval", PyInt(5))>>),
      inbound_nat_rules |-> PyNone, inbound_nat_pools |-> PyNone,
      load_balancing_rules |-> PyNone]}

SeedLocation(p) ==
    IF Truthy(p.location) THEN p.location ELSE resource_group_location

InitialRemotes ==
    {PyNone}
    \cup {ServiceStore(NewLoadBalancer(p, SeedLocation(p), PyNone).value) :
             p \in SeedParams}

Init ==
    /\ remote \in InitialRemotes
    /\ params \in Params
    /\ pc = "start"
    /\ self_location = PyNone
    /\ load_balancer = PyNone
    /\ new_load_balancer = PyNone
    /\ results = InitialResults
    /\ calls = <<>>
    /\ fatal = ""
    /\ runs = 1
    /\ prevrun = [status |-> "none", changed |-> FALSE, check_mode |-> FALSE]
    /\ remote0 = remote
    /\ cnew = PyNone
    /\ cold = PyNone
    /\ cpc = "off"
    /\ verdict = "none"
    /\ prev = "none"

Next ==
    \/ Fetch
    \/ Decide
    \/ CheckModeReturn
    \/ CreateOrUpdate
    \/ CreateOrUpdateFails
    \/ Delete
    \/ DeleteFails
    \/ ReturnUnchanged
    \/ Rerun

Spec == Init /\ [][Next]_vars

(***************************************************************************)
(* Properties of the reconciliation run, checked under Spec.               *)
(***************************************************************************)
\* the operations of this run's service calls, in order
Ops == [i \in 1..Len(calls) |-> calls[i].op]

\* the run has computed changed (it may have mutated and ended since)
Decided == pc \in {"decided", "done", "failed"}

\* the run is over: it returned, self.fail ended it, or an exception did
Ended == pc \in {"done", "failed", "crashed"}

\* this run repeats, outside check mode, the parameters of a run that
\* completed outside check mode
SecondOfTwoRealRuns ==
    /\ runs >= 2
    /\ prevrun.status = "done"
    /\ ~prevrun.check_mode
    /\ ~params.check_mode

\* C1: Idempotence.  When a run with state present, outside check mode, has
\* completed and the same parameters are run again with nobody else
\* touching the remote resource, the second run computes changed = false and
\* calls neither createOrUpdate nor delete (nor does it end in an exception).
C1_Idempotence ==
    (SecondOfTwoRealRuns /\ params.state = "present" /\ pc # "start"
     /\ pc # "fetched")
        => /\ pc # "crashed"
           /\ ~results.changed
           /\ Ops = <<"get">>

\* C1 witness: a second run has returned after a first run that changed the
\* remote resource.
C1_Witness ==
    /\ SecondOfTwoRealRuns
    /\ params.state = "present"
    /\ prevrun.changed
    /\ pc = "done"
    /\ remote # PyNone

\* C2: Delete no-op.  A run with state absent whose fetch finds no resource
\* reports changed = false and never calls delete, whatever else the
\* parameters carry.
C2_DeleteNoOp ==
    (Decided /\ params.state = "absent" /\ ~Exists(load_balancer))
        => /\ ~results.changed
           /\ \A i \in 1..Len(calls) : calls[i].op # "delete"

\* C3: Absent-resource create.  When the fetch finds no resource and state is
\* present, changed is true for every shape of the parameters, and outside
\* check mode the run calls createOrUpdate exactly once, with the desired spec
\* built from the parameters.
C3_AbsentCreate ==
    (params.state = "present" /\ ~Exists(load_balancer)
     /\ pc \notin {"start", "fetched"})
        => /\ Decided
           /\ results.changed
           /\ (pc \in {"done", "failed"} /\ ~params.check_mode)
                 => /\ Ops = <<"get", "createOrUpdate">>
                    /\ calls[2].param =
                         assign_protocol(
                             LoadBalancer(params, self_location, PyNone),
                             PyNone).value

\* C3 witness: a resource was created from parameters that leave every
\* collection out.
C3_Witness ==
    /\ params.state = "present"
    /\ ~Exists(load_balancer)
    /\ pc = "done"
    /\ ~params.check_mode
    /\ params.frontend_ip_configurations = PyNone
    /\ params.probes = PyNone
    /\ Ops = <<"get", "createOrUpdate">>
    /\ remote # PyNone

\* C4: Dry run.  In check mode a run calls neither createOrUpdate nor delete
\* and leaves the remote resource as it found it, for either state and
\* whatever the remote holds; and the flag it reports is the flag that the
\* same parameters compute outside check mode, before mutating.
C4_DryRun ==
    /\ params.check_mode => (Ops \in {<<>>, <<"get">>} /\ remote = remote0)
    /\ (runs >= 2 /\ prevrun.status = "done" /\ prevrun.check_mode
        /\ ~params.check_mode /\ pc \notin {"start", "fetched"})
          => (Decided /\ results.changed = prevrun.changed)

\* C4 witness: a check-mode run reported changed = true against an existing
\* resource and the same parameters then went on to mutate it.
C4_Witness ==
    /\ runs >= 2
    /\ prevrun.status = "done"
    /\ prevrun.check_mode
    /\ prevrun.changed
    /\ ~params.check_mode
    /\ pc = "done"
    /\ Exists(load_balancer)
    /\ Len(calls) = 2

\* C5: Delete.  Outside check mode, a run with state absent against an
\* existing resource reports changed = true, calls delete exactly once and
\* createOrUpdate never, and returns None as the reported state.
C5_Delete ==
    (params.state = "absent" /\ Exists(load_balancer) /\ ~params.check_mode
     /\ pc \notin {"start", "fetched"})
        => /\ Decided
           /\ results.changed
           /\ pc \in {"done", "failed"} => Ops = <<"get", "delete">>
           /\ pc = "done" => (results.state = PyNone /\ remote = PyNone)

\* C5 witness: an existing resource was deleted.
C5_Witness ==
    /\ params.state = "absent"
    /\ Exists(load_balancer)
    /\ ~params.check_mode
    /\ pc = "done"
    /\ remote = PyNone

\* the tag merge of the user's tags into those of the fetched resource
\* reports a change
TagMergeChanged ==
    update_tags(getattr(as_dict(load_balancer), "tags"), params.tags)[1]

\* the desired spec is structurally equal to the fetched resource
StructurallyEqual ==
    default_compare(as_dict(new_load_balancer), as_dict(load_balancer)) = CmpTrue

\* C6: With state present against an existing resource, changed is true
\* exactly when the desired spec is not structurally equal to the serialised
\* current resource or the tag merge reports a change; when neither holds the
\* run calls no createOrUpdate and reports the current resource as state.
C6_ChangedIffDiff ==
    (params.state = "present" /\ Exists(load_balancer)
     /\ pc \notin {"start", "fetched"})
        => /\ Decided
           /\ results.changed = (~StructurallyEqual \/ TagMergeChanged)
           /\ (StructurallyEqual /\ ~TagMergeChanged /\ pc = "done")
                 => /\ Ops = <<"get">>
                    /\ results.state = as_dict(load_balancer)

\* C6 witness: a run returned unchanged against an existing resource whose
\* sub-objects the parameters list in another order.
C6_Witness ==
    /\ params.state = "present"
    /\ Exists(load_balancer)
    /\ pc = "done"
    /\ ~params.check_mode
    /\ ~results.changed
    /\ Truthy(params.probes)
    /\ Len(params.probes.list) = 2
    /\ runs = 1

\* the top-level attributes of the load balancer the parameters can carry
TopLevelAttrs == {"location", "sku", "tags"} \cup Collections

\* C12: Patch over baseline.  In a run with state present against an
\* existing resource, every top-level attribute the parameters leave out has
\* in the desired spec, in the payload of createOrUpdate and on the remote
\* resource afterwards exactly the value the fetched resource holds; and
\* when the parameters leave every one of them out, changed is false.
C12_PatchOverBaseline ==
    (params.state = "present" /\ Exists(load_balancer) /\ Decided)
        => /\ \A a \in TopLevelAttrs :
                 IsNone(params[a]) =>
                   /\ getattr(new_load_balancer, a) = getattr(load_balancer, a)
                   /\ \A i \in 1..Len(calls) :
                         calls[i].op = "createOrUpdate" =>
                           getattr(calls[i].param, a) = getattr(load_balancer, a)
                   /\ pc = "done" => getattr(remote, a) = getattr(remote0, a)
           /\ (\A a \in TopLevelAttrs : IsNone(params[a])) => ~results.changed

\* the user's item and the existing probe agree in name and port
SameNameAndPort(item, probe) ==
    /\ getattr(item, "name") = getattr(probe, "name")
    /\ getattr(item, "port") = getattr(probe, "port")

\* The parameters list the probes the fetched resource holds, by name and
\* port and in any order, and carry no protocol for any of them.
SameProbesProtocolOmitted ==
    /\ Truthy(params.probes)
    /\ IsList(getattr(load_balancer, "probes"))
    /\ LET mine == params.probes.list
           theirs == getattr(load_balancer, "probes").list
       IN  /\ Len(mine) = Len(theirs)
           /\ \A i \in 1..Len(mine) :
                 /\ IsNone(getattr(mine[i], "protocol"))
                 /\ \E j \in 1..Len(theirs) : SameNameAndPort(mine[i], theirs[j])
           /\ \A j \in 1..Len(theirs) :
                 \E i \in 1..Len(mine) : SameNameAndPort(mine[i], theirs[j])

\* the parameters supply nothing but the probes
NothingElseSupplied ==
    \A a \in TopLevelAttrs \ {"probes"} : IsNone(params[a])

\* C13: End-to-end inheritance.  When the parameters list the probes of the
\* existing resource by name and port with protocol omitted, and supply
\* nothing else, the run reports changed = false and calls no
\* createOrUpdate, whatever protocols the existing probes carry.
C13_EndToEndInheritance ==
    (params.state = "present" /\ Exists(load_balancer)
     /\ pc \notin {"start", "fetched"}
     /\ SameProbesProtocolOmitted /\ NothingElseSupplied)
        => /\ Decided
           /\ ~results.changed
           /\ \A i \in 1..Len(calls) : calls[i].op # "createOrUpdate"

\* the calls that change the remote resource
Mutating == {"createOrUpdate", "delete"}

\* the fatal errors of the two failing calls: operation, name, message
FatalMessages ==
    {"Error creating or updating load balancer " \o lb_name \o " - " \o "exc",
     "Error deleting loadbalancer " \o lb_name \o " - " \o "exc"}

\* a run that failed has issued the fetch and the one call that failed,
\* left the remote resource and the results as they were, and carries the
\* fatal error of that call
FailedRun ==
    /\ fatal \in FatalMessages
    /\ Len(calls) = 2
    /\ calls[1].op = "get"
    /\ calls[2].op = (IF params.state = "present" THEN "createOrUpdate"
                      ELSE "delete")
    /\ (calls[2].op = "createOrUpdate")
          = (fatal = "Error creating or updating load balancer " \o lb_name
                        \o " - " \o "exc")
    /\ remote = remote0
    /\ results.state = ReportedState(load_balancer, params.tags)

\* C14: Remote failure.  When createOrUpdate or delete fails, the run ends
\* in a fatal error that carries the load balancer's name and the
\* underlying message; the failed call was issued once, no other mutating
\* call is issued in that run, the remote resource is as the run found it,
\* and the run never goes on to return: the only step after the failure is
\* the start of another run.  A run without a failed call has no fatal
\* error.
C14_RemoteFailure ==
    /\ [](((pc = "failed") <=> (fatal # "")) /\ (pc = "failed" => FailedRun))
    /\ [][pc = "failed" => (pc' = "start" /\ runs' = runs + 1 /\ calls' = <<>>)]_vars

\* C14 witness: a createOrUpdate against an existing resource has failed.
C14_Witness ==
    /\ pc = "failed"
    /\ Exists(load_balancer)
    /\ Ops = <<"get", "createOrUpdate">>
    /\ fatal = "Error creating or updating load balancer lb0 - exc"

\* the resources the service may hold when a run finds one
ExistingResources == InitialRemotes \ {PyNone}

\* the frontend IP configurations the builder produces against lb
BuiltFrontends(lb) ==
    getattr(LoadBalancer(params, self_location, lb),
            "frontend_ip_configurations")

\* the fetched resource holds a frontend entry at an index of the user's list
PairedIndexExists ==
    /\ IsList(getattr(load_balancer, "frontend_ip_configurations"))
    /\ Len(getattr(load_balancer, "frontend_ip_configurations").list) > 0

\* C15 as stated: Frontend positional pairing.  When the resource exists,
\* the builder pairs the existing entry at index i with the user's entry at
\* index i, so the frontend collection it builds depends on the existing
\* resource's frontend list: against some other existing frontend list the
\* same parameters build another collection.
C15_FrontendPositionalPairing ==
    (params.state = "present" /\ Exists(load_balancer) /\ Decided
     /\ Truthy(params.frontend_ip_configurations) /\ PairedIndexExists)
        => \E lb \in ExistingResources :
              BuiltFrontends(lb) # BuiltFrontends(load_balancer)

\* the entry the user's item alone determines when the resource exists
FrontendOfItem(item) ==
    PyDict([name |-> getattr(item, "name"),
            public_ip_address |->
                IF Truthy(getattr(item, "public_ip_address"))
                THEN PyDict([id |-> PyStr(format_resource_id(
                                 getattr(item, "public_ip_address").str))])
                ELSE PyNone,
            zones |-> IF Truthy(getattr(item, "zones"))
                      THEN getattr(item, "zones") ELSE PyNone])

\* C15 as amended: when the resource exists and the parameters list
\* frontends, the desired frontend collection has one entry per entry of
\* the user's list, in the user's order, each determined by the user's
\* entry alone (an empty zones list becoming None); it is the same whatever
\* frontend list the existing resource holds.
C15_FrontendFromInputAlone ==
    (params.state = "present" /\ Exists(load_balancer) /\ Decided
     /\ Truthy(params.frontend_ip_configurations))
        => /\ getattr(new_load_balancer, "frontend_ip_configurations")
                = PyList([i \in 1..Len(params.frontend_ip_configurations.list) |->
                     FrontendOfItem(params.frontend_ip_configurations.list[i])])
           /\ \A lb \in ExistingResources :
                 BuiltFrontends(lb) = BuiltFrontends(load_balancer)

\* C15 witness: a run has built its frontends against an existing resource
\* whose entry at index 1 has another name and carries a public IP address
\* and zones that the user's entry at index 1 omits.
C15_Witness ==
    /\ params.state = "present"
    /\ Exists(load_balancer)
    /\ Decided
    /\ Truthy(params.frontend_ip_configurations)
    /\ PairedIndexExists
    /\ LET mine == params.frontend_ip_configurations.list[1]
           theirs == getattr(load_balancer, "frontend_ip_configurations").list[1]
       IN  /\ getattr(mine, "name") # getattr(theirs, "name")
           /\ IsNone(getattr(mine, "public_ip_address"))
           /\ Truthy(getattr(theirs, "public_ip_address"))
           /\ Truthy(getattr(theirs, "zones"))

\* a tags attribute as a dict: None stands for no tags
TagsOf(x) == IF IsDict(x) THEN x ELSE EmptyDict

\* C16: Tag merge is additive.  In a run with state present that calls
\* createOrUpdate against an existing resource, every tag the fetched
\* resource carries and the parameters do not mention is in the payload
\* with its value, and the payload's tags are the merged tags that the run
\* holds as its reported state before mutating (what check mode returns).
C16_TagMergeAdditive ==
    (params.state = "present" /\ Exists(load_balancer)
     /\ pc \in {"done", "failed"} /\ Len(calls) = 2
     /\ calls[2].op = "createOrUpdate")
        => LET sent == TagsOf(getattr(calls[2].param, "tags"))
               had == TagsOf(getattr(load_balancer, "tags"))
               mine == TagsOf(params.tags)
               reported == ReportedState(load_balancer, params.tags)
           IN  /\ \A k \in DOMAIN had.dict \ DOMAIN mine.dict :
                     HasKey(sent, k) /\ sent.dict[k] = had.dict[k]
               /\ HasKey(reported, "tags") => sent = getattr(reported, "tags")

\* the positions of this run's calls whose operation is in ops
CallsOf(ops) == {i \in 1..Len(calls) : calls[i].op \in ops}

\* C17: Every run performs exactly one fetch of the load balancer, before
\* anything else; it issues at most one mutating call, after the fetch and
\* after changed was computed: createOrUpdate only with state present,
\* delete only with state absent, and none when changed is false or the
\* run is in check mode.
C17_OneFetchOneMutation ==
    /\ pc = "start" => calls = <<>>
    /\ pc # "start" => (CallsOf({"get"}) = {1})
    /\ CallsOf(Mutating) \subseteq {2}
    /\ CallsOf(Mutating) # {}
          => /\ pc \in {"done", "failed"}
             /\ results.changed
             /\ ~params.check_mode
             /\ calls[2].op = (IF params.state = "present"
                               THEN "createOrUpdate" ELSE "delete")
    /\ Len(calls) <= 2

\* C17 witness: a run that follows a check-mode run has fetched, computed
\* changed = true, issued its one mutating call and returned.
C17_Witness ==
    /\ runs = 2
    /\ prevrun.check_mode
    /\ pc = "done"
    /\ results.changed
    /\ CallsOf({"get"}) = {1}
    /\ CallsOf(Mutating) = {2}

(***************************************************************************)
(* The trees default_compare is driven with.                               *)
(***************************************************************************)
MaxLen == 2
MaxVal == 1

Strs == {"x", "y"}

\* all dicts with keys among ks and values in vs
DictsOver(ks, vs) ==
    UNION {{PyDict(f) : f \in [d -> vs]} : d \in SUBSET ks}

\* all lists of at most n elements of es
ListsOver(es, n) ==
    UNION {{PyList(q) : q \in [1..m -> es]} : m \in 0..n}

Scalars == {PyNone} \cup {PyInt(i) : i \in 1..MaxVal} \cup {PyStr(s) : s \in Strs}

\* list elements: sub-objects that carry id, name, both or neither
Items == DictsOver({"id", "name"}, {PyStr(s) : s \in Strs})

\* a dict holding one collection or scalar attribute
Holders ==
    {PyDict([probes |-> v]) :
        v \in Scalars \cup Items \cup ListsOver(Scalars, 1) \cup ListsOver(Items, 1)}
    \cup {PyDict([name |-> PyStr("x"), probes |-> v]) : v \in ListsOver(Scalars, 1)}

TreeU ==
    Scalars \cup Items \cup Holders
    \cup ListsOver(Scalars, MaxLen) \cup ListsOver(Items, MaxLen)

(***************************************************************************)
(* Driver of default_compare: one call on a pair of trees, then one        *)
(* perturbation of an argument and a second call.                          *)
(***************************************************************************)
CmpInit ==
    /\ cnew \in TreeU
    /\ cold \in TreeU
    /\ cpc = "pending"
    /\ verdict = "none"
    /\ prev = "none"
    /\ remote = PyNone
    /\ params = PyNone
    /\ pc = "off"
    /\ self_location = PyNone
    /\ load_balancer = PyNone
    /\ new_load_balancer = PyNone
    /\ results = InitialResults
    /\ calls = <<>>
    /\ fatal = ""
    /\ runs = 0
    /\ prevrun = PyNone
    /\ remote0 = PyNone

Compare ==
    /\ cpc = "pending"
    /\ verdict' = default_compare(cnew, cold)
    /\ cpc' = "compared"
    /\ UNCHANGED <<cnew, cold, prev, runvars>>

\* old gains a key that new lacks
AddKeyToOld ==
    /\ cpc = "compared"
    /\ IsDict(cnew) /\ IsDict(cold)
    /\ \E k \in {"id", "name", "probes"} : \E v \in Scalars :
          /\ ~HasKey(cnew, k) /\ ~HasKey(cold, k)
          /\ cold' = PyDict([j \in DOMAIN cold.dict \cup {k} |->
                               IF j = k THEN v ELSE cold.dict[j]])
    /\ prev' = verdict
    /\ verdict' = default_compare(cnew, cold')
    /\ cpc' = "added"
    /\ UNCHANGED <<cnew, runvars>>

\* new loses a key
RemoveKeyFromNew ==
    /\ cpc = "compared"
    /\ IsDict(cnew) /\ IsDict(cold)
    /\ \E k \in DOMAIN cnew.dict :
          cnew' = PyDict([j \in DOMAIN cnew.dict \ {k} |-> cnew.dict[j]])
    /\ prev' = verdict
    /\ verdict' = default_compare(cnew', cold)
    /\ cpc' = "removed"
    /\ UNCHANGED <<cold, runvars>>

\* the two arguments change places
SwapArguments ==
    /\ cpc = "compared"
    /\ IsDict(cnew) /\ IsDict(cold)
    /\ cnew' = cold
    /\ cold' = cnew
    /\ prev' = verdict
    /\ verdict' = default_compare(cold, cnew)
    /\ cpc' = "swapped"
    /\ UNCHANGED runvars

CmpNext == Compare \/ AddKeyToOld \/ RemoveKeyFromNew \/ SwapArguments

SpecCmp == CmpInit /\ [][CmpNext]_vars

(***************************************************************************)
(* Properties of default_compare, checked under SpecCmp.                   *)
(***************************************************************************)
\* C7: Map comparison is one-directional.  On two dicts the verdict is True
\* exactly when every key of new has a value that compares True with the
\* value old holds there, None standing in for a key old lacks; so giving
\* old a key that new lacks, or taking a key away from new, never turns True
\* into anything else.  (That True for (new, old) does not give True for
\* (old, new) is the witness.)
C7_OneDirectional ==
    /\ (cpc = "compared" /\ IsDict(cnew) /\ IsDict(cold))
          => ((verdict = CmpTrue)
                <=> \A k \in DOMAIN cnew.dict :
                       default_compare(cnew.dict[k], DictGet(cold, k)) = CmpTrue)
    /\ (cpc \in {"added", "removed"} /\ prev = CmpTrue) => verdict = CmpTrue

\* C7 witness: new compared True with an old that holds more keys, and with
\* the arguments swapped the verdict is False.
C7_Witness ==
    /\ cpc = "swapped"
    /\ prev = CmpTrue
    /\ verdict = CmpFalse
    /\ DOMAIN cold.dict # {}

Kind(x) == IF IsDict(x) THEN "dict" ELSE IF IsList(x) THEN "list" ELSE "scalar"

\* every element of the list is a dict that holds key
AllHave(l, key) ==
    \A i \in 1..Len(l.list) : IsDict(l.list[i]) /\ HasKey(l.list[i], key)

AllScalars(l) == \A i \in 1..Len(l.list) : Kind(l.list[i]) = "scalar"

AllDicts(l) == \A i \in 1..Len(l.list) : IsDict(l.list[i])

\* The canonical key of the specified list comparison: id if every element
\* has one, else name if every element has one, else "" for the elements'
\* own ordering.
CanonicalKey(new, old) ==
    IF AllHave(new, "id") /\ AllHave(old, "id") THEN "id"
    ELSE IF AllHave(new, "name") /\ AllHave(old, "name") THEN "name"
    ELSE ""

\* the list sorted by the canonical key
CanonicalSort(l, key) ==
    IF key = "" THEN StableSort(l.list, l.list)
    ELSE StableSort(l.list, [i \in 1..Len(l.list) |-> DictGet(l.list[i], key)])

\* The pairs of lists on which the specified comparison is defined without
\* appeal to an ordering of dicts or of values of different types.
ReferenceDefined(new, old) ==
    LET key == CanonicalKey(new, old)
    IN  IF key = ""
        THEN /\ AllScalars(new) /\ AllScalars(old)
             /\ Orderable(new.list) /\ Orderable(old.list)
        ELSE /\ Orderable([i \in 1..Len(new.list) |-> DictGet(new.list[i], key)])
             /\ Orderable([i \in 1..Len(old.list) |-> DictGet(old.list[i], key)])

\* The specified list comparison.
ReferenceListEqual(new, old) ==
    /\ Len(new.list) = Len(old.list)
    /\ LET key == CanonicalKey(new, old)
           sn == CanonicalSort(new, key)
           so == CanonicalSort(old, key)
       IN  \A i \in 1..Len(sn) : default_compare(sn[i], so[i]) = CmpTrue

\* C8: List comparison matches the specified reference: on every pair of
\* lists the verdict is True if the lengths agree and the lists, each sorted
\* by the canonical key, are pairwise equal, and False otherwise.
C8_ListMatchesReference ==
    (cpc = "compared" /\ IsList(cnew) /\ IsList(cold)
     /\ ReferenceDefined(cnew, cold))
        => verdict = IF ReferenceListEqual(cnew, cold) THEN CmpTrue ELSE CmpFalse

Occurrences(q, e) == Cardinality({i \in 1..Len(q) : q[i] = e})

IsPermutation(p, q) ==
    /\ Len(p) = Len(q)
    /\ \A i \in 1..Len(p) : Occurrences(p, p[i]) = Occurrences(q, p[i])

\* C9: List comparison is order-insensitive: a list of named objects, or of
\* scalars, compares True with each of its permutations, in either argument
\* position (every pair of lists drawn is compared both ways round).
C9_OrderInsensitive ==
    (cpc = "compared" /\ IsList(cnew) /\ IsList(cold)
     /\ IsPermutation(cnew.list, cold.list)
     /\ (AllHave(cnew, "name") \/ AllScalars(cnew)))
        => verdict = CmpTrue

RECURSIVE TypeMismatch(_, _)

\* new and old differ in type at some path: a dict, a list and a scalar
\* against one another, or a list of dicts against a list of scalars
TypeMismatch(new, old) ==
    IF Kind(new) # Kind(old) THEN TRUE
    ELSE IF IsDict(new)
    THEN \E k \in DOMAIN new.dict \cap DOMAIN old.dict :
            TypeMismatch(new.dict[k], old.dict[k])
    ELSE IF IsList(new)
    THEN /\ Len(new.list) = Len(old.list)
         /\ Len(new.list) > 0
         /\ \/ AllDicts(new) /\ AllScalars(old)
            \/ AllScalars(new) /\ AllDicts(old)
    ELSE FALSE

\* C10: A type mismatch between new and old at any path makes the verdict
\* False: never True, and never an exception in place of a verdict.
C10_TypeMismatchUnequal ==
    (cpc = "compared" /\ TypeMismatch(cnew, cold)) => verdict = CmpFalse

\* C18: default_compare is reflexive: every tree of dicts, lists and
\* scalars, lists of dicts of which only some carry id or name included,
\* compares True with itself.
C18_Reflexive ==
    (cpc = "compared" /\ cnew = cold) => verdict = CmpTrue

(***************************************************************************)
(* Driver of assign_protocol: the function applied to the spec built from  *)
(* each set of parameters, against each existing resource.                 *)
(***************************************************************************)
\* A load balancer as get deserialises it from a response that carries none
\* of the optional properties: the SDK model leaves those attributes None.
BareLoadBalancer ==
    PyDict([id |-> PyStr(LbId), name |-> PyStr(lb_name),
            location |-> resource_group_location])

\* A load balancer that holds two probes of one name.
TwiceNamed ==
    PyDict([id |-> PyStr(LbId), name |-> PyStr(lb_name),
            location |-> resource_group_location,
            probes |-> PyList(<<Probe(ProbeItem("p0", 80, PyStr("Http"))),
                                Probe(ProbeItem("p0", 80, PyStr("Https")))>>),
            inbound_nat_rules |-> PyList(<<>>),
            inbound_nat_pools |-> PyList(<<>>),
            load_balancing_rules |-> PyList(<<>>)])

\* the values origin takes
Origins == InitialRemotes \cup {BareLoadBalancer, TwiceNamed}

AsgInit ==
    /\ params \in {p \in Params : p.state = "present" /\ ~p.check_mode}
    /\ load_balancer \in Origins
    /\ self_location = SeedLocation(params)
    /\ new_load_balancer = LoadBalancer(params, self_location, load_balancer)
    /\ pc = "built"
    /\ remote = load_balancer
    /\ remote0 = load_balancer
    /\ results = InitialResults
    /\ calls = <<[op |-> "get", param |-> PyNone]>>
    /\ fatal = ""
    /\ runs = 1
    /\ prevrun = [status |-> "none", changed |-> FALSE, check_mode |-> FALSE]
    /\ cnew = PyNone
    /\ cold = PyNone
    /\ cpc = "off"
    /\ verdict = "none"
    /\ prev = "none"

\* line 782: self.new_load_balancer = self.assign_protocol(...)
AssignProtocol ==
    /\ pc = "built"
    /\ LET ap == assign_protocol(new_load_balancer, load_balancer)
       IN  IF ap.raised
           THEN pc' = "crashed" /\ UNCHANGED new_load_balancer
           ELSE pc' = "assigned" /\ new_load_balancer' = ap.value
    /\ UNCHANGED <<remote, params, self_location, load_balancer, results,
                   calls, fatal, runs, prevrun, remote0, cmpvars>>

AsgNext == AssignProtocol

SpecAsg == AsgInit /\ [][AsgNext]_vars

(***************************************************************************)
(* Properties of assign_protocol, checked under SpecAsg.                   *)
(***************************************************************************)
\* The protocol the default-inheritance rule gives an item of the user's
\* list: its own if it carries one, else that of the first item of the same
\* name in the existing resource's collection, else Tcp.
InheritedProtocol(item, lb, attribute) ==
    IF Truthy(getattr(item, "protocol")) THEN getattr(item, "protocol")
    ELSE LET refs == IF Exists(lb) /\ IsList(getattr(lb, attribute))
                     THEN getattr(lb, attribute).list ELSE <<>>
             same == SelectSeq(refs,
                         LAMBDA x : getattr(x, "name") = getattr(item, "name"))
         IN  IF Len(same) > 0 THEN getattr(same[1], "protocol")
             ELSE PyStr("Tcp")

\* C11: Default inheritance.  For each of probes, inbound_nat_rules,
\* inbound_nat_pools and load_balancing_rules, assign_protocol raises
\* nothing, and every item whose parameter omits protocol leaves it with the
\* protocol of the first same-name item of the existing resource's
\* collection, or with Tcp when there is no existing resource or the
\* collection holds no item of that name.
C11_DefaultInheritance ==
    (pc \in {"assigned", "crashed"})
        => /\ pc # "crashed"
           /\ \A a \in ProtocolAttrs :
                 Truthy(params[a]) =>
                   \A i \in 1..Len(params[a].list) :
                      getattr(getattr(new_load_balancer, a).list[i], "protocol")
                        = InheritedProtocol(params[a].list[i], load_balancer, a)

====
